---- MODULE Spec2Model ----
(***************************************************************************)
(* A state-machine model of check_update.py: one run of check_updates()    *)
(* over the cache file, the storefront lookups and the push dispatch.      *)
(***************************************************************************)
EXTENDS Integers, Sequences, FiniteSets, TLC

(* ---------------------------------------------------------------------- *)
(* Bounds of the model                                                     *)
(* ---------------------------------------------------------------------- *)
\* longest APP_IDS token list that is enumerated
MaxIds == 2

\* the longest release notes handed to build_app_detail
MaxNotes == 152

(* ---------------------------------------------------------------------- *)
(* Program constants                                                       *)
(* ---------------------------------------------------------------------- *)
REGIONS ==
  << "cn", "us", "hk", "tw", "jp", "kr", "gb", "sg", "au", "de",
     "fr", "ca", "it", "es", "ru", "br", "mx", "in", "th", "vn" >>

\* REGIONS[:6]
RegionPrefix == 6

\* list(data.items())[:3]
PreviewLen == 3

TEST_APP_IDS == << "414478124" >>

(* ---------------------------------------------------------------------- *)
(* Value universes                                                         *)
(* ---------------------------------------------------------------------- *)
\* identifiers that may be named in APP_IDS; "" is a blank token
Ids == {"A", "B"}
Tokens == Ids \cup {""}

\* keys of the cache file that are no longer configured
StaleKeys == {"S1", "S2"}

\* the order in which the keys of a cache file are stored
KeyOrder == << "S1", "S2", "A", "B", "414478124" >>

\* marks a JSON object that has no "version" key
NoKey == "<no key>"

\* version strings a storefront record may carry
FreshVersions == {NoKey, "", "1.0", "1.1"}

\* a cache entry: a JSON object (is_dict) with an optional version (its
\* other fields are never read back), or some other JSON value
DictEntry(v) == [is_dict |-> TRUE, version |-> v]
OtherEntry == [is_dict |-> FALSE, version |-> NoKey]

EmptyMap == [k \in {} |-> OtherEntry]

\* the value Python's None, as a mapping no cache can be equal to
None == [k \in {"<None>"} |-> OtherEntry]

\* contents of the cache file
AbsentFile == [kind |-> "absent", data |-> EmptyMap]
FileOf(kind) == [kind |-> kind, data |-> EmptyMap]
MappingFile(m) == [kind |-> "mapping", data |-> m]

\* entries a cache file left by earlier runs (or edited by hand) may hold
StaleEntries == { DictEntry("1.0") }
IdEntries == { DictEntry("1.0"), DictEntry(NoKey), OtherEntry }

FileMaps ==
  UNION { { m \in [K -> StaleEntries \cup IdEntries] :
              \A k \in K : k \in StaleKeys => m[k] \in StaleEntries }
          : K \in SUBSET (StaleKeys \cup Ids) }

InitialFiles ==
  { AbsentFile, FileOf("unparsable"), FileOf("nonmapping") }
    \cup { MappingFile(m) : m \in FileMaps }

\* values of the APP_IDS environment variable, split at the commas and
\* stripped; the empty list is the unset (or empty) variable
Envs == UNION { [1..n -> Tokens] : n \in 0..MaxIds }

(* ---------------------------------------------------------------------- *)
(* Pure functions                                                          *)
(* ---------------------------------------------------------------------- *)
get_app_ids(env_ids) ==
  IF env_ids = << >> THEN TEST_APP_IDS
  ELSE SelectSeq(env_ids, LAMBDA t : t # "")

\* the keys of a mapping in storage order
OrderedKeys(m) == SelectSeq(KeyOrder, LAMBDA k : k \in DOMAIN m)

\* the keys whose entries load_version_cache prints
PreviewKeys(m) ==
  LET ks == OrderedKeys(m)
  IN  { ks[j] : j \in 1..(IF Len(ks) < PreviewLen THEN Len(ks) ELSE PreviewLen) }

\* load_version_cache(): the value returned for a cache file
load_version_cache(f) ==
  CASE f.kind = "absent" -> EmptyMap
    [] f.kind \in {"unparsable", "empty", "partial"} -> EmptyMap
    [] f.kind = "nonmapping" -> None
    [] f.kind = "mapping" ->
         IF \E k \in PreviewKeys(f.data) : ~ f.data[k].is_dict
         THEN EmptyMap
         ELSE f.data

\* cache.get(app_id, {}).get("version", ""), where the entry is an object
old_version_of(c, app_id) ==
  IF app_id \in DOMAIN c /\ c[app_id].version # NoKey
  THEN c[app_id].version
  ELSE ""

\* info.get("version", "0.0")
version_of(inf) == IF inf.version = NoKey THEN "0.0" ELSE inf.version

\* REGIONS[:6]
SearchRegions == SubSeq(REGIONS, 1, RegionPrefix)

(* ---------------------------------------------------------------------- *)
(* Responses of the storefront lookup                                      *)
(* ---------------------------------------------------------------------- *)
\* kind: what requests.get / resp.json produced; resultCount: the count of
\* the body when there is one; version, release_ok: fields of results[0]
Resp(kind, n, v, rel) ==
  [kind |-> kind, resultCount |-> n, version |-> v, release_ok |-> rel]

NoResp == Resp("none", 0, NoKey, TRUE)

Responses ==
  { Resp("timeout", 0, NoKey, TRUE),       \* requests.get raises
    Resp("http_error", 0, NoKey, TRUE),    \* status_code # 200, body unread
    Resp("bad_json", 0, NoKey, TRUE),      \* resp.json() raises
    Resp("not_object", 0, NoKey, TRUE),    \* body is not a JSON object
    Resp("ok", 0, NoKey, TRUE),            \* resultCount = 0 or missing
    Resp("no_results", 1, NoKey, TRUE),    \* resultCount > 0, no results[0]
    Resp("bad_result", 1, NoKey, TRUE),    \* results[0] is not an object
    Resp("ok", 1, "1.0", FALSE) }          \* release date is not a string
  \cup { Resp("ok", 1, v, TRUE) : v \in FreshVersions }

\* the lookup of one region yields the record data["results"][0]
IsMatch(rsp) == rsp.kind = "ok" /\ rsp.resultCount > 0

\* the lookup of one region raised inside the try block, or was not a 200
IsFailure(rsp) == rsp.kind \notin {"ok"}

Info(found, v, reg, rel) ==
  [found |-> found, version |-> v, detected_region |-> reg, release_ok |-> rel]
NoInfo == Info(FALSE, NoKey, "", TRUE)

(* ---------------------------------------------------------------------- *)
(* State                                                                   *)
(* ---------------------------------------------------------------------- *)
VARIABLES
  pc,               \* position of check_updates()
  app_ids,          \* the configured identifier list
  file,             \* the content of version_cache.json
  cache,            \* the working mapping
  is_first_run,
  i,                \* index of the identifier of the for loop
  r,                \* index of the region of the resolver's for loop
  info,             \* the value returned by get_app_info_with_region
  all_current_apps,
  updated_apps,
  queried,          \* regions looked up for the current identifier
  resp,             \* the response of the latest lookup
  anyFailed,        \* a lookup for the current identifier failed
  attempted,        \* loop indices whose resolution was started
  resolved,         \* the records resolved so far, in order
  log,              \* the classification lines printed so far
  sent,             \* the calls of send_notification
  loaded,           \* the mapping returned by load_version_cache
  loads,            \* number of calls of load_version_cache
  saves,            \* number of calls of save_version_cache
  saved,            \* how the call of save_version_cache ended
  fault,            \* the exception that left check_updates, if any
  store,            \* what the storefront answers, when it is held fixed
  run,              \* 1 in the first run of the job, 2 in the one after it
  run1,             \* what the first run of the job did, once it is over
  arg,              \* the arguments of a function applied on its own
  out               \* what that function returned and posted

vars == << pc, app_ids, file, cache, is_first_run, i, r, info,
           all_current_apps, updated_apps, queried, resp, anyFailed,
           attempted, resolved, log, sent, loaded, loads, saves, saved, fault,
           store, run, run1, arg, out >>

\* the variables no step of a single run of check_updates touches
aux == << store, run, run1, arg, out >>

\* the values these have while they are not in use
NoStore == [id \in {} |-> 0]
NoRun == [cold |-> FALSE, resolved |-> 0, pc |-> "none", log |-> << >>,
          sent |-> 0, saves |-> 0]
NoCall == [fn |-> "none"]

Init ==
  /\ pc = "start"
  /\ app_ids \in { get_app_ids(e) : e \in Envs }
  /\ file \in InitialFiles
  /\ cache = EmptyMap
  /\ is_first_run = FALSE
  /\ i = 0
  /\ r = 0
  /\ info = NoInfo
  /\ all_current_apps = << >>
  /\ updated_apps = << >>
  /\ queried = << >>
  /\ resp = NoResp
  /\ anyFailed = FALSE
  /\ attempted = {}
  /\ resolved = << >>
  /\ log = << >>
  /\ sent = << >>
  /\ loaded = EmptyMap
  /\ loads = 0
  /\ saves = 0
  /\ saved = "no"
  /\ fault = "none"
  /\ store = NoStore
  /\ run = 1
  /\ run1 = NoRun
  /\ arg = NoCall
  /\ out = NoCall


(* ---------------------------------------------------------------------- *)
(* check_updates(): start and cache load                                   *)
(* ---------------------------------------------------------------------- *)
\* a variant of the loop that passes over every other identifier
GoTo_skipping(n) ==
  /\ i' = n + 1
  /\ info' = NoInfo
  /\ queried' = << >>
  /\ resp' = NoResp
  /\ anyFailed' = FALSE
  /\ IF n + 1 <= Len(app_ids)
     THEN /\ pc' = "lookup"
          /\ r' = 1
          /\ attempted' = attempted \cup {n + 1}
     ELSE /\ pc' = "notify"
          /\ r' = 0
          /\ attempted' = attempted

\* the for loop of check_updates moves to the identifier at index n: the
\* resolver starts with its first region, or the loop is over
GoTo(n) ==
  /\ i' = n
  /\ info' = NoInfo
  /\ queried' = << >>
  /\ resp' = NoResp
  /\ anyFailed' = FALSE
  /\ IF n <= Len(app_ids)
     THEN /\ pc' = "lookup"
          /\ r' = 1
          /\ attempted' = attempted \cup {n}
     ELSE /\ pc' = "notify"
          /\ r' = 0
          /\ attempted' = attempted

\* "if not app_ids: return"
Start ==
  /\ pc = "start"
  /\ pc' = IF app_ids = << >> THEN "done" ELSE "load"
  /\ UNCHANGED << app_ids, file, cache, is_first_run, i, r, info,
                  all_current_apps, updated_apps, queried, resp, anyFailed,
                  attempted, resolved, log, sent, loaded, loads, saves,
                  saved, fault >>
  /\ UNCHANGED aux

\* the value bound to is_first_run, when len(cache) can be taken
LenIsZero(c) == DOMAIN c = {}

\* "cache = load_version_cache(); is_first_run = len(cache) == 0"
LoadCache ==
  /\ pc = "load"
  /\ cache' = load_version_cache(file)
  /\ loaded' = cache'
  /\ loads' = loads + 1
  /\ IF cache' = None
     THEN /\ pc' = "crashed"
          /\ fault' = "TypeError: len(None)"
          /\ UNCHANGED << is_first_run, i, r, info, queried, resp,
                          anyFailed, attempted >>
     ELSE /\ is_first_run' = LenIsZero(cache')
          /\ fault' = fault
          /\ GoTo(1)
  /\ UNCHANGED << app_ids, file, all_current_apps, updated_apps, resolved,
                  log, sent, saves, saved >>
  /\ UNCHANGED aux

(* ---------------------------------------------------------------------- *)
(* get_app_info_with_region(): one lookup per step                         *)
(* ---------------------------------------------------------------------- *)
\* a variant that walks the whole region list
resolver_regions_all == REGIONS

\* the regions the resolver iterates over
resolver_regions == SearchRegions

\* a variant that takes any 200 response with an object body as a match
accepts_any_ok(rsp) == rsp.kind = "ok"

\* "if data.get('resultCount', 0) > 0: app = data['results'][0]" of a
\* 200 response whose body is an object
accepts(rsp) == IsMatch(rsp)

\* a variant whose except clause returns instead of continuing
lookup_outcome_gives_up(rsp, rr) ==
  IF accepts(rsp) THEN "match"
  ELSE IF IsFailure(rsp) THEN "not_found"
  ELSE IF rr < Len(resolver_regions) THEN "continue"
  ELSE "not_found"

\* what one iteration of the resolver's loop does with the response of
\* region number rr: return the record, go on, or fall out of the loop
lookup_outcome(rsp, rr) ==
  IF accepts(rsp) THEN "match"
  ELSE IF rr < Len(resolver_regions) THEN "continue"
  ELSE "not_found"

\* one iteration of the resolver's loop, given the response to its request
LookupWith(rsp) ==
  /\ resp' = rsp
  /\ queried' = Append(queried, resolver_regions[r])
  /\ anyFailed' = (anyFailed \/ IsFailure(rsp))
  /\ IF lookup_outcome(rsp, r) = "match"
     THEN /\ info' = Info(TRUE, rsp.version, resolver_regions[r],
                          rsp.release_ok)
          /\ pc' = "classify"
          /\ r' = r
     ELSE IF lookup_outcome(rsp, r) = "continue"
     THEN /\ info' = info
          /\ pc' = "lookup"
          /\ r' = r + 1
     ELSE /\ info' = NoInfo
          /\ pc' = "classify"
          /\ r' = r
  /\ UNCHANGED << app_ids, file, cache, is_first_run, i, all_current_apps,
                  updated_apps, attempted, resolved, log, sent, loaded,
                  loads, saves, saved, fault >>
  /\ UNCHANGED aux

\* the storefront may answer anything
Lookup ==
  /\ pc = "lookup"
  /\ \E rsp \in Responses : LookupWith(rsp)

(* ---------------------------------------------------------------------- *)
(* check_updates(): the body of the for loop                               *)
(* ---------------------------------------------------------------------- *)
AppData(id, v, old) == [id |-> id, version |-> v, old_version |-> old]

\* "if not info: continue"
Skip ==
  /\ pc = "classify"
  /\ ~ info.found
  /\ GoTo(i + 1)
  /\ UNCHANGED << app_ids, file, cache, is_first_run, all_current_apps,
                  updated_apps, resolved, log, sent, loaded, loads, saves,
                  saved, fault >>
  /\ UNCHANGED aux

\* format_datetime(release_iso) raises for a release date that is neither
\* empty nor a string; cache.get(app_id, {}).get raises for an entry that
\* is not an object
ClassifyFault ==
  IF ~ info.release_ok THEN "TypeError: format_datetime"
  ELSE IF app_ids[i] \in DOMAIN cache /\ ~ cache[app_ids[i]].is_dict
  THEN "AttributeError: cache entry"
  ELSE "none"

\* a variant that keeps silent about identifiers without a cached version
changed_only_cached(first, old, v) == first \/ (old # "" /\ old # v)

\* the condition of the write branch
changed(first, old, v) == first \/ old # v

\* a variant that stores the entry without its version
new_entry_unversioned(v) == DictEntry(NoKey)

\* the entry stored by "cache[app_id] = {...}"
new_entry(v) == DictEntry(v)

Classify ==
  /\ pc = "classify"
  /\ info.found
  /\ resolved' = Append(resolved, [id |-> app_ids[i],
                                   version |-> version_of(info)])
  /\ IF ClassifyFault # "none"
     THEN /\ pc' = "crashed"
          /\ fault' = ClassifyFault
          /\ UNCHANGED << cache, all_current_apps, updated_apps, log, i, r,
                          info, queried, resp, anyFailed, attempted >>
     ELSE LET app_id == app_ids[i]
              version == version_of(info)
              old_version == old_version_of(cache, app_id)
              app_data == AppData(app_id, version, old_version)
          IN  /\ fault' = fault
              /\ IF changed(is_first_run, old_version, version)
                 THEN /\ IF is_first_run
                         THEN /\ all_current_apps' = Append(all_current_apps, app_data)
                              /\ updated_apps' = updated_apps
                              /\ log' = Append(log, [id |-> app_id, tag |-> "init"])
                         ELSE /\ updated_apps' = Append(updated_apps, app_data)
                              /\ all_current_apps' = all_current_apps
                              /\ log' = Append(log, [id |-> app_id, tag |-> "update"])
                      /\ cache' = [k \in DOMAIN cache \cup {app_id} |->
                                     IF k = app_id
                                     THEN new_entry(version)
                                     ELSE cache[k]]
                 ELSE /\ log' = Append(log, [id |-> app_id, tag |-> "latest"])
                      /\ UNCHANGED << cache, all_current_apps, updated_apps >>
              /\ GoTo(i + 1)
  /\ UNCHANGED << app_ids, file, is_first_run, sent, loaded, loads, saves, saved >>
  /\ UNCHANGED aux


(* ---------------------------------------------------------------------- *)
(* send_notification() and its two backends                                *)
(* ---------------------------------------------------------------------- *)
\* the environment read by send_notification and the outcome of the one
\* request it may issue; a variable the chosen backend does not read is "-"
Dispatch(method, key, token, chat, transport) ==
  [method |-> method, bark_key |-> key, bot_token |-> token,
   chat_id |-> chat, transport |-> transport]

\* what the backend answers when it is asked
BarkTransports == {"200", "non200", "exception"}
TelegramTransports == {"ok_true", "ok_false", "exception"}

Dispatches ==
  { Dispatch("bark", key, "-", "-", t) :
      key \in {"", "k"}, t \in BarkTransports }
  \cup { Dispatch("telegram", "-", tok, ch, t) :
           tok \in {"", "t"}, ch \in {"", "c"}, t \in TelegramTransports }
  \cup { Dispatch("other", "-", "-", "-", "none") }

\* a variant of the telegram check that forgets the chat id
configured_token_only(d) ==
  CASE d.method = "bark" -> d.bark_key # ""
    [] d.method = "telegram" -> d.bot_token # ""
    [] OTHER -> FALSE

\* the credentials the selected backend needs are all set
configured(d) ==
  CASE d.method = "bark" -> d.bark_key # ""
    [] d.method = "telegram" -> d.bot_token # "" /\ d.chat_id # ""
    [] OTHER -> FALSE

\* a dispatch that can happen: the answer is one the method's backend gives
Feasible(d) ==
  CASE d.method = "bark" -> d.transport \in BarkTransports
    [] d.method = "telegram" -> d.transport \in TelegramTransports
    [] OTHER -> d.transport = "none"

\* number of requests send_notification issues
requests_of(d) == IF configured(d) THEN 1 ELSE 0

\* the answer send_notification reads, if it asks at all
outcome_of(d) == IF configured(d) THEN d.transport ELSE "none"

\* the value send_notification returns, as a truth value
send_notification(d) ==
  configured(d) /\ d.transport \in {"200", "ok_true"}

\* a variant that reports the first application only
Notification_first_only(kind, apps, d) ==
  [kind |-> kind, apps |-> SubSeq(apps, 1, 1), count |-> 1,
   transport |-> outcome_of(d), requests |-> requests_of(d),
   result |-> send_notification(d)]

\* one call of send_notification by check_updates: what was composed, and
\* what became of the request
Notification(kind, apps, d) ==
  [kind |-> kind, apps |-> apps, count |-> Len(apps),
   transport |-> outcome_of(d), requests |-> requests_of(d),
   result |-> send_notification(d)]

\* a variant that saves only after a successful dispatch
after_dispatch_on_success(result) == IF result THEN "save" ELSE "done"

\* the statement that follows the call of send_notification, whose value
\* is discarded
after_dispatch(result) == "save"

\* the status the run reports when it ends: check_updates returns None and
\* the process exits with code 0, whatever send_notification returned
run_status(dispatched, result) == "success"

\* a variant that forgets the cold-start branch
notify_branch_no_init(first, all, upd) ==
  IF upd # << >> THEN (IF Len(upd) = 1 THEN "single" ELSE "multi")
  ELSE "noop"

\* a variant that notifies on every cold start, resolved or not
notify_branch_any_first(first, all, upd) ==
  IF first THEN "init"
  ELSE IF upd # << >> THEN (IF Len(upd) = 1 THEN "single" ELSE "multi")
  ELSE "noop"

\* the branch taken after the for loop
notify_branch(first, all, upd) ==
  IF first /\ all # << >> THEN "init"
  ELSE IF upd # << >> THEN (IF Len(upd) = 1 THEN "single" ELSE "multi")
  ELSE "noop"

\* "if is_first_run and all_current_apps: ... elif updated_apps: ... else"
Notify ==
  /\ pc = "notify"
  /\ LET b == notify_branch(is_first_run, all_current_apps, updated_apps)
     IN  IF b = "noop"
         THEN /\ pc' = "done"
              /\ sent' = sent
         ELSE \E d \in Dispatches :
                   /\ Feasible(d)
                   /\ pc' = after_dispatch(send_notification(d))
                   /\ sent' = Append(sent,
                        Notification(b, IF b = "init" THEN all_current_apps
                                        ELSE updated_apps, d))
  /\ UNCHANGED << app_ids, file, cache, is_first_run, i, r, info,
                  all_current_apps, updated_apps, queried, resp, anyFailed,
                  attempted, resolved, log, loaded, loads, saves, saved, fault >>
  /\ UNCHANGED aux

(* ---------------------------------------------------------------------- *)
(* save_version_cache(): open, write, close                                *)
(* ---------------------------------------------------------------------- *)
\* open(CACHE_FILE, "w") leaves a file of length zero
opened(f) == FileOf("empty")

\* "with open(CACHE_FILE, 'w')" truncates the file
SaveOpen ==
  /\ pc = "save"
  /\ saves' = saves + 1
  /\ file' = opened(file)
  /\ pc' = "writing"
  /\ UNCHANGED << app_ids, cache, is_first_run, i, r, info,
                  all_current_apps, updated_apps, queried, resp, anyFailed,
                  attempted, resolved, log, sent, loaded, loads, saved,
                  fault >>
  /\ UNCHANGED aux

\* open raises (no permission, read-only directory): "except Exception"
\* reports it and the file is as it was
SaveOpenFail ==
  /\ pc = "save"
  /\ saves' = saves + 1
  /\ saved' = "failed"
  /\ pc' = "done"
  /\ UNCHANGED << app_ids, file, cache, is_first_run, i, r, info,
                  all_current_apps, updated_apps, queried, resp, anyFailed,
                  attempted, resolved, log, sent, loaded, loads, fault >>
  /\ UNCHANGED aux

\* json.dump writes the document piece by piece
SaveWrite ==
  /\ pc = "writing"
  /\ file.kind = "empty"
  /\ file' = FileOf("partial")
  /\ UNCHANGED << pc, app_ids, cache, is_first_run, i, r, info,
                  all_current_apps, updated_apps, queried, resp, anyFailed,
                  attempted, resolved, log, sent, loaded, loads, saves,
                  saved, fault >>
  /\ UNCHANGED aux

\* the document json.dump(cache, f) leaves in the file once it is closed
dumped(c) == MappingFile(c)

\* the last piece is written and the file is closed
SaveClose ==
  /\ pc = "writing"
  /\ file' = dumped(cache)
  /\ saved' = "ok"
  /\ pc' = "done"
  /\ UNCHANGED << app_ids, cache, is_first_run, i, r, info,
                  all_current_apps, updated_apps, queried, resp, anyFailed,
                  attempted, resolved, log, sent, loaded, loads, saves,
                  fault >>
  /\ UNCHANGED aux

\* a write raises (disk full, I/O error): "except Exception" reports it
\* and the file keeps what was written so far
SaveFail ==
  /\ pc = "writing"
  /\ saved' = "failed"
  /\ pc' = "done"
  /\ UNCHANGED << app_ids, file, cache, is_first_run, i, r, info,
                  all_current_apps, updated_apps, queried, resp, anyFailed,
                  attempted, resolved, log, sent, loaded, loads, saves,
                  fault >>
  /\ UNCHANGED aux

(* ---------------------------------------------------------------------- *)
(* The process is terminated from outside                                  *)
(* ---------------------------------------------------------------------- *)
\* the memory of the process is gone and the observation of the run ends;
\* the cache file stays as the process left it
Kill ==
  /\ pc \notin {"done", "crashed", "killed"}
  /\ pc' = "killed"
  /\ cache' = EmptyMap
  /\ is_first_run' = FALSE
  /\ i' = 0
  /\ r' = 0
  /\ info' = NoInfo
  /\ all_current_apps' = << >>
  /\ updated_apps' = << >>
  /\ queried' = << >>
  /\ resp' = NoResp
  /\ anyFailed' = FALSE
  /\ attempted' = {}
  /\ resolved' = << >>
  /\ log' = << >>
  /\ sent' = << >>
  /\ loaded' = EmptyMap
  /\ loads' = 0
  /\ saves' = 0
  /\ saved' = "no"
  /\ UNCHANGED << app_ids, file, fault >>
  /\ UNCHANGED aux

Next ==
  \/ Start
  \/ LoadCache
  \/ Lookup
  \/ Skip
  \/ Classify
  \/ Notify
  \/ SaveOpen
  \/ SaveOpenFail
  \/ SaveWrite
  \/ SaveClose
  \/ SaveFail
  \/ Kill

Spec == Init /\ [][Next]_vars


(* ====================================================================== *)
(* build_app_detail() and send_notification() applied on their own         *)
(* ====================================================================== *)
\* "if len(notes) > 150: notes = notes[:147] + '...'"
NotesLimit == 150
NotesKeep == 147
Ellipsis == << ".", ".", "." >>

\* release notes are sequences of characters; the two texts of each length
\* differ at every position, and both hold dots of their own
Alphabet == << "a", "b", ".", "c", ".", "d", "e" >>
notes_of(n, p) == [k \in 1..n |-> Alphabet[((k + p) % Len(Alphabet)) + 1]]

\* a variant that cuts at the limit and then appends the marker
excerpt_cut_at_limit(notes) ==
  IF Len(notes) > NotesLimit
  THEN SubSeq(notes, 1, NotesLimit) \o Ellipsis
  ELSE notes

\* the notes as build_app_detail shows them
excerpt(notes) ==
  IF Len(notes) > NotesLimit
  THEN SubSeq(notes, 1, NotesKeep) \o Ellipsis
  ELSE notes

\* the parts of the text build_app_detail returns
build_app_detail(app_data, show_old_version) ==
  [name |-> app_data.name,
   old_ver |-> IF show_old_version /\ app_data.old_version # ""
               THEN app_data.old_version ELSE "",
   version |-> app_data.version,
   region |-> app_data.region,
   release |-> app_data.release,
   notes |-> excerpt(app_data.notes)]

\* a field the request does not carry
NoField == "<no field>"

\* the form send_bark_notification posts
bark_request(bark_key, title, content, url, icon_url) ==
  [to |-> "bark", key |-> bark_key, title |-> title, body |-> content,
   group |-> "App Store更新", sound |-> "bell", isArchive |-> "1",
   url |-> IF url # "" THEN url ELSE NoField,
   icon |-> IF icon_url # "" THEN icon_url ELSE NoField]

\* the message send_telegram_notification posts: the parts of its text, in
\* order
telegram_request(bot_token, chat_id, title, content) ==
  [to |-> "telegram", bot_token |-> bot_token, chat_id |-> chat_id,
   text |-> << "*", title, "*", "\n\n", content >>,
   parse_mode |-> "Markdown", disable_web_page_preview |-> FALSE]

\* the requests one call of send_notification issues
posts_of(title, content, url, icon_url, d) ==
  IF ~ configured(d) THEN << >>
  ELSE IF d.method = "bark"
  THEN << bark_request(d.bark_key, title, content, url, icon_url) >>
  ELSE << telegram_request(d.bot_token, d.chat_id, title, content) >>

DetailCalls ==
  { [fn |-> "build_app_detail",
     app_data |-> [name |-> "N", version |-> "1.1", old_version |-> old,
                   region |-> "cn", release |-> "R",
                   notes |-> notes_of(n, p)],
     show_old_version |-> b] :
      n \in 0..MaxNotes, p \in 0..1, old \in {"", "1.0"}, b \in BOOLEAN }

SendCalls ==
  { [fn |-> "send_notification", title |-> "T", content |-> "C",
     url |-> u, icon_url |-> ic, env |-> d] :
      u \in {"", "u"}, ic \in {"", "ic"}, d \in Dispatches }

InitCompose ==
  /\ pc = "call"
  /\ app_ids = << >>
  /\ file = AbsentFile
  /\ cache = EmptyMap
  /\ is_first_run = FALSE
  /\ i = 0
  /\ r = 0
  /\ info = NoInfo
  /\ all_current_apps = << >>
  /\ updated_apps = << >>
  /\ queried = << >>
  /\ resp = NoResp
  /\ anyFailed = FALSE
  /\ attempted = {}
  /\ resolved = << >>
  /\ log = << >>
  /\ sent = << >>
  /\ loaded = EmptyMap
  /\ loads = 0
  /\ saves = 0
  /\ saved = "no"
  /\ fault = "none"
  /\ store = NoStore
  /\ run = 1
  /\ run1 = NoRun
  /\ arg \in DetailCalls \cup SendCalls
  /\ out = NoCall

BuildAppDetail ==
  /\ pc = "call"
  /\ arg.fn = "build_app_detail"
  /\ out' = [fn |-> arg.fn,
             detail |-> build_app_detail(arg.app_data, arg.show_old_version)]
  /\ pc' = "returned"
  /\ UNCHANGED << app_ids, file, cache, is_first_run, i, r, info,
                  all_current_apps, updated_apps, queried, resp, anyFailed,
                  attempted, resolved, log, sent, loaded, loads, saves,
                  saved, fault, store, run, run1, arg >>

SendNotification ==
  /\ pc = "call"
  /\ arg.fn = "send_notification"
  /\ Feasible(arg.env)
  /\ out' = [fn |-> arg.fn,
             result |-> send_notification(arg.env),
             posts |-> posts_of(arg.title, arg.content, arg.url,
                                arg.icon_url, arg.env)]
  /\ pc' = "returned"
  /\ UNCHANGED << app_ids, file, cache, is_first_run, i, r, info,
                  all_current_apps, updated_apps, queried, resp, anyFailed,
                  attempted, resolved, log, sent, loaded, loads, saves,
                  saved, fault, store, run, run1, arg >>

NextCompose ==
  \/ BuildAppDetail
  \/ SendNotification

SpecCompose == InitCompose /\ [][NextCompose]_vars


(* ====================================================================== *)
(* The job run twice in a row against a storefront that does not change    *)
(* ====================================================================== *)
\* what the storefront answers for one identifier: in the first region of
\* the list and in the regions after it
StoreAnswers ==
  { [home |-> rsp, abroad |-> rsp] : rsp \in Responses }
  \cup { [home |-> miss, abroad |-> Resp("ok", 1, "1.1", TRUE)] :
           miss \in { Resp("timeout", 0, NoKey, TRUE),
                      Resp("ok", 0, NoKey, TRUE) } }

\* the response to "requests.get(url, timeout=8)" for identifier id in
\* region number rr
answer(id, rr) == IF rr = 1 THEN store[id].home ELSE store[id].abroad

InitTwice ==
  /\ pc = "start"
  /\ app_ids \in { get_app_ids(e) : e \in Envs }
  /\ file \in InitialFiles
  /\ cache = EmptyMap
  /\ is_first_run = FALSE
  /\ i = 0
  /\ r = 0
  /\ info = NoInfo
  /\ all_current_apps = << >>
  /\ updated_apps = << >>
  /\ queried = << >>
  /\ resp = NoResp
  /\ anyFailed = FALSE
  /\ attempted = {}
  /\ resolved = << >>
  /\ log = << >>
  /\ sent = << >>
  /\ loaded = EmptyMap
  /\ loads = 0
  /\ saves = 0
  /\ saved = "no"
  /\ fault = "none"
  /\ store \in [{ app_ids[k] : k \in 1..Len(app_ids) } -> StoreAnswers]
  /\ run = 1
  /\ run1 = NoRun
  /\ arg = NoCall
  /\ out = NoCall

\* the storefront answers what it answers for this identifier and region
LookupStored ==
  /\ pc = "lookup"
  /\ LookupWith(answer(app_ids[i], r))

\* what a run that is over has done
Outcome ==
  [cold |-> is_first_run, resolved |-> Len(resolved), pc |-> pc,
   log |-> log, sent |-> Len(sent), saves |-> saves]

\* the job is started again after a run that is over and whose save, if it
\* made one, succeeded: a new process, the same environment, the cache file
\* as the first run left it
Restart ==
  /\ run = 1
  /\ pc \in {"done", "crashed"}
  /\ saved \in {"no", "ok"}
  /\ run' = 2
  /\ run1' = Outcome
  /\ pc' = "start"
  /\ cache' = EmptyMap
  /\ is_first_run' = FALSE
  /\ i' = 0
  /\ r' = 0
  /\ info' = NoInfo
  /\ all_current_apps' = << >>
  /\ updated_apps' = << >>
  /\ queried' = << >>
  /\ resp' = NoResp
  /\ anyFailed' = FALSE
  /\ attempted' = {}
  /\ resolved' = << >>
  /\ log' = << >>
  /\ sent' = << >>
  /\ loaded' = EmptyMap
  /\ loads' = 0
  /\ saves' = 0
  /\ saved' = "no"
  /\ fault' = "none"
  /\ UNCHANGED << app_ids, file, store, arg, out >>

NextTwice ==
  \/ Start
  \/ LoadCache
  \/ LookupStored
  \/ Skip
  \/ Classify
  \/ Notify
  \/ SaveOpen
  \/ SaveOpenFail
  \/ SaveWrite
  \/ SaveClose
  \/ SaveFail
  \/ Restart

SpecTwice == InitTwice /\ [][NextTwice]_vars


(* ====================================================================== *)
(* Properties                                                              *)
(* ====================================================================== *)
\* the notification decision has been taken
Notified == pc \in {"save", "writing", "done"} /\ loads = 1

SeqOfIds(apps) == [k \in 1..Len(apps) |-> apps[k].id]
SetOfIds(apps) == { apps[k].id : k \in 1..Len(apps) }
Tags == { log[k].tag : k \in 1..Len(log) }

\* the updates a pass over the resolutions rs[from..] reports when the
\* versions held before it are ver (the empty string: no known version)
RECURSIVE ExpectedUpdates(_, _, _)
ExpectedUpdates(rs, from, ver) ==
  IF from > Len(rs) THEN << >>
  ELSE LET rec == rs[from]
           old == ver[rec.id]
       IN  IF old # rec.version
           THEN << AppData(rec.id, rec.version, old) >>
                  \o ExpectedUpdates(rs, from + 1,
                                     [ver EXCEPT ![rec.id] = rec.version])
           ELSE ExpectedUpdates(rs, from + 1, ver)

KnownVersions(m) ==
  [id \in Ids \cup {TEST_APP_IDS[1]} |-> old_version_of(m, id)]

C2_ColdStart ==
  (loads = 1 /\ pc # "crashed" /\ is_first_run) =>
    /\ SeqOfIds(all_current_apps) = SeqOfIds(resolved)
    /\ SeqOfIds(log) = SeqOfIds(resolved)
    /\ Tags \subseteq {"init"}
    /\ DOMAIN cache = SetOfIds(resolved)
    /\ (Notified /\ resolved # << >>) =>
         /\ Len(sent) = 1
         /\ sent[1].kind = "init"
         /\ SeqOfIds(sent[1].apps) = SeqOfIds(resolved)
         /\ sent[1].count = Len(resolved)
         /\ \A k \in 1..Len(resolved) :
              sent[1].apps[k].version = resolved[k].version
    /\ saved = "ok" =>
         /\ file.kind = "mapping"
         /\ DOMAIN file.data = SetOfIds(resolved)

\* a cold start with one identifier resolved and one not has saved
C2_Witness ==
  /\ pc = "done" /\ is_first_run /\ saved = "ok"
  /\ Len(resolved) = 1 /\ Len(app_ids) = 2
  /\ Len(sent) = 1

(* ---------------------------------------------------------------------- *)
\* C3: the cache is saved at most once per run; in a finished run it is
\* saved iff a notification dispatch was attempted iff an entry of the
\* working mapping was written in the pass; when every resolved
\* identifier is unchanged there is neither notification nor save.
Written == Tags \cap {"init", "update"} # {}

C3_SaveIffNotifyIffWritten ==
  /\ saves <= 1
  /\ Len(sent) <= 1
  /\ saves = 1 => Len(sent) = 1
  /\ Len(sent) = 1 => Written
  /\ pc = "done" =>
       /\ (saves = 1) <=> (Len(sent) = 1)
       /\ (Len(sent) = 1) <=> Written
       /\ (Tags \subseteq {"latest"}) => (sent = << >> /\ saves = 0)

\* a finished run whose resolved identifiers are all unchanged
C3_Witness ==
  /\ pc = "done" /\ Len(resolved) = 2 /\ Tags = {"latest"}
  /\ saves = 0 /\ sent = << >>


(* ---------------------------------------------------------------------- *)
\* C4: load never raises and always returns a mapping; a missing file, a
\* file that does not parse and a file whose top-level value is not a
\* mapping each yield the empty mapping, and the run goes on as a cold
\* start.
C4_LoadReturnsMapping ==
  loads = 1 =>
    /\ loaded # None
    /\ fault # "TypeError: len(None)"
    /\ (saves = 0 /\ file.kind \in {"absent", "unparsable", "nonmapping"})
         => (loaded = EmptyMap /\ is_first_run)

(* ---------------------------------------------------------------------- *)
\* C5: the cache file is replaced atomically: at every point of a run,
\* also when the run is killed or a write fails, the file holds a complete
\* document (the one from before the save or the new working mapping),
\* never an empty or partial one.
C5_AtomicReplace ==
  file.kind \notin {"empty", "partial"}

(* ---------------------------------------------------------------------- *)
\* C6: whatever the cache file, the lookups and the dispatch do, a run
\* with a non-empty identifier list attempts every configured identifier
\* and ends without an unhandled fault; only a run with an empty list
\* stops before any attempt.
C6_NoUnhandledFault ==
  /\ pc # "crashed"
  /\ fault = "none"
  /\ (pc = "done" /\ app_ids # << >>) => attempted = 1..Len(app_ids)
  /\ app_ids = << >> => attempted = {}

(* ---------------------------------------------------------------------- *)
\* C7 (as stated): the resolver returns at the first region whose response
\* has resultCount > 0; no lookup follows such a response.
C7_StopsAtFirstPositiveCount ==
  (pc \in {"lookup", "classify"} /\ resp.resultCount > 0) =>
     (pc = "classify" /\ info.found)

\* C7 (amended): regions are queried in list order, one lookup each; the
\* resolver returns the first result of the first region whose lookup
\* gives a 200 response with an object body, resultCount > 0 and an object
\* as first result, tagged with that region, and issues no lookup after
\* it; a response with resultCount > 0 but without such a first result is
\* a miss and the search goes on.
C7_FirstUsableMatch ==
  /\ pc \in {"lookup", "classify"} =>
       /\ Len(queried) <= RegionPrefix
       /\ \A k \in 1..Len(queried) : queried[k] = REGIONS[k]
  /\ (pc = "lookup" /\ queried # << >>) =>
       ~ (resp.kind = "ok" /\ resp.resultCount > 0)
  /\ pc = "lookup" => (~ info.found /\ Len(queried) = r - 1)
  /\ (pc = "classify" /\ info.found) =>
       /\ resp.kind = "ok" /\ resp.resultCount > 0
       /\ info.version = resp.version
       /\ info.detected_region = REGIONS[Len(queried)]
       /\ info.detected_region = queried[Len(queried)]

\* the third region matched after an earlier lookup had failed
C7_Witness ==
  /\ pc = "classify" /\ info.found
  /\ queried = << "cn", "us", "hk" >>
  /\ info.detected_region = "hk"
  /\ anyFailed

(* ---------------------------------------------------------------------- *)
\* C8: when no region of the configured list matches, the resolver returns
\* NotFound after one lookup for each configured region, in order, and for
\* no other region; the orchestrator then skips the identifier (no
\* classification, no cache write) and goes on with the next one.
C8_Exhausted ==
  /\ (pc = "classify" /\ ~ info.found) =>
        queried = SubSeq(REGIONS, 1, RegionPrefix)
  /\ (pc = "classify" /\ Len(queried) = RegionPrefix
        /\ ~ (resp.kind = "ok" /\ resp.resultCount > 0)) => ~ info.found

C8_SkipStep ==
  (pc = "classify" /\ ~ info.found /\ pc' # "killed") =>
     /\ cache' = cache
     /\ log' = log
     /\ resolved' = resolved
     /\ all_current_apps' = all_current_apps
     /\ updated_apps' = updated_apps
     /\ i' = i + 1
     /\ pc' = IF i < Len(app_ids) THEN "lookup" ELSE "notify"
     /\ i < Len(app_ids) => (i + 1) \in attempted'

C8_NotFoundSkips == [] C8_Exhausted /\ [][C8_SkipStep]_vars

\* the first identifier was not found and the second is being resolved
C8_Witness ==
  /\ pc = "lookup" /\ i = 2 /\ loads = 1
  /\ resolved = << >> /\ log = << >> /\ cache = loaded

(* ---------------------------------------------------------------------- *)
\* C9: a failed lookup (exception, non-200 status, unparsable or malformed
\* body, positive count without a usable result) is a miss for that region
\* only: the resolver never raises, goes on with the next region and still
\* returns the record of a later region that matches.
C9_LookupStep ==
  (pc = "lookup" /\ pc' # "killed") =>
     /\ pc' \in {"lookup", "classify"}
     /\ fault' = fault
     /\ cache' = cache /\ log' = log /\ i' = i
     /\ resp'.kind # "ok" =>
          IF r < RegionPrefix
          THEN pc' = "lookup" /\ r' = r + 1 /\ ~ info'.found
          ELSE pc' = "classify" /\ ~ info'.found
     /\ (resp'.kind = "ok" /\ resp'.resultCount > 0) =>
          (pc' = "classify" /\ info'.found /\ info'.version = resp'.version)

C9_FailureIsRegionalMiss == [][C9_LookupStep]_vars

\* a record was returned by the second region after the first one failed
C9_Witness ==
  /\ pc = "classify" /\ info.found /\ anyFailed
  /\ Len(queried) = 2 /\ info.detected_region = "us"

(* ---------------------------------------------------------------------- *)
\* the classification of section 4.3 of the specification
Classification(c, id, v) ==
  IF id \notin DOMAIN c \/ c[id].version = NoKey THEN "Unseen"
  ELSE IF c[id].version = v THEN "Unchanged"
  ELSE "Updated"

\* C10: processing one resolved identifier changes at most the entry of
\* that identifier: the entry is written when the identifier is Unseen or
\* Updated, the mapping is left as it is when it is Unchanged, and no
\* entry is ever removed or altered otherwise.
C10_Step ==
  (pc # "load" /\ pc' # "killed") =>
     /\ DOMAIN cache \subseteq DOMAIN cache'
     /\ \A k \in DOMAIN cache' :
          (k \notin DOMAIN cache \/ cache'[k] # cache[k]) =>
             (pc = "classify" /\ info.found /\ k = app_ids[i])
     /\ (pc = "classify" /\ info.found /\ pc' # "crashed") =>
          LET id == app_ids[i]
              v == version_of(info)
              cls == Classification(cache, id, v)
          IN  /\ cls \in {"Unseen", "Updated"} =>
                   (id \in DOMAIN cache' /\ cache'[id] = DictEntry(v))
              /\ cls = "Unchanged" => cache' = cache

C10_FrameOfClassify == [][C10_Step]_vars


(* ---------------------------------------------------------------------- *)
\* the run is past its for loop
PassOver == pc \in {"notify", "save", "writing", "done"} /\ loads = 1

AllIds == Ids \cup {TEST_APP_IDS[1]}
Absent == "<absent>"

\* the versions known at load, for the classification of section 4.3
LoadedVersions ==
  [id \in AllIds |->
     IF id \in DOMAIN loaded /\ loaded[id].version # NoKey
     THEN loaded[id].version ELSE Absent]

\* for each identifier the version of the resolution rs[from..] that last
\* classified Unseen or Updated (Absent: none did), when known holds the
\* versions known before; on a cold start every resolution is Unseen
RECURSIVE LastWrites(_, _, _, _, _)
LastWrites(rs, from, cold, known, w) ==
  IF from > Len(rs) THEN w
  ELSE LET rec == rs[from]
           old == known[rec.id]
       IN  IF cold \/ old = Absent \/ old # rec.version
           THEN LastWrites(rs, from + 1, cold,
                           [known EXCEPT ![rec.id] = rec.version],
                           [w EXCEPT ![rec.id] = rec.version])
           ELSE LastWrites(rs, from + 1, cold, known, w)

\* C11: every cache entry written by the run holds the version of the
\* record that last caused a write for its identifier, and at the end of
\* the pass every identifier classified Unseen or Updated has a cache
\* entry whose version is its freshly resolved version.
C11_EntriesHoldFreshVersion ==
  PassOver =>
    LET w == LastWrites(resolved, 1, LenIsZero(loaded), LoadedVersions,
                        [id \in AllIds |-> Absent])
    IN  \A id \in AllIds :
          w[id] # Absent =>
            (id \in DOMAIN cache /\ cache[id].version = w[id])

(* ---------------------------------------------------------------------- *)
\* C12: send_notification issues no request and returns false when the
\* credentials of the selected backend are incomplete or the backend name
\* is unknown; otherwise it issues exactly one request, to the selected
\* backend, and it never raises.
Incomplete(d) ==
  \/ d.method = "bark" /\ d.bark_key = ""
  \/ d.method = "telegram" /\ (d.bot_token = "" \/ d.chat_id = "")
  \/ d.method \notin {"bark", "telegram"}

C12_DispatchGuards ==
  (pc = "returned" /\ arg.fn = "send_notification")
  => IF Incomplete(arg.env)
     THEN /\ out.posts = << >>
          /\ out.result = FALSE
     ELSE /\ Len(out.posts) = 1
          /\ out.posts[1].to = arg.env.method
          /\ out.result = (arg.env.transport \in {"200", "ok_true"})

\* telegram was selected without a chat id: nothing was requested
C12_Witness ==
  /\ pc = "returned" /\ arg.fn = "send_notification"
  /\ arg.env.method = "telegram"
  /\ arg.env.bot_token = "t" /\ arg.env.chat_id = ""
  /\ out.posts = << >> /\ ~ out.result

(* ---------------------------------------------------------------------- *)
\* C13: whenever a run takes a notify branch the cache save is executed
\* with the full working mapping, whatever the dispatch did (success,
\* failure answer, exception, skipped); a failed dispatch neither raises
\* into check_updates nor prevents the save.
C13_State ==
  /\ (pc = "done" /\ sent # << >>) => saves = 1
  /\ (pc \in {"writing", "done"} /\ sent # << >>) =>
        (fault = "none" /\ cache # None)
  /\ saved = "ok" => (sent # << >> /\ file = MappingFile(cache))

C13_Step ==
  /\ (sent' # sent /\ pc' # "killed") => (pc' = "save" /\ fault' = "none")
  /\ (pc = "save" /\ pc' # "killed") =>
        (saves' = saves + 1 /\ cache' = cache /\ sent' = sent)

C13_SaveAfterAnyDispatch == [] C13_State /\ [][C13_Step]_vars

\* the request raised and the cache was saved all the same
C13_Witness ==
  /\ pc = "done" /\ Len(sent) = 1 /\ sent[1].transport = "exception"
  /\ ~ sent[1].result /\ saved = "ok" /\ file = MappingFile(cache)

(* ---------------------------------------------------------------------- *)
\* C14: a run loads the cache once, then resolves and classifies the
\* identifiers one at a time in configured order, then dispatches the
\* notification if any, then saves the cache if any; no lookup follows the
\* dispatch and no dispatch follows the save.
C14_State ==
  /\ loads <= 1
  /\ pc \in {"lookup", "classify"} =>
       (loads = 1 /\ sent = << >> /\ saves = 0 /\ attempted = 1..i)
  /\ pc = "notify" =>
       (sent = << >> /\ saves = 0 /\ attempted = 1..Len(app_ids))
  /\ saves = 1 => Len(sent) = 1

C14_Step ==
  pc' # "killed" =>
    /\ (queried' # queried /\ queried' # << >>) =>
         (pc = "lookup" /\ sent = << >> /\ saves = 0 /\ loads = 1)
    /\ i' # i => (i' = i + 1 /\ pc \in {"load", "classify"})
    /\ log' # log =>
         (pc = "classify" /\ Len(log') = Len(log) + 1
            /\ log'[Len(log')].id = app_ids[i])
    /\ loads' # loads => (loads = 0 /\ pc = "load" /\ attempted = {})
    /\ sent' # sent =>
         (pc = "notify" /\ saves = 0 /\ i = Len(app_ids) + 1)
    /\ saves' # saves => (pc = "save" /\ Len(sent) = 1 /\ sent' = sent)

C14_EventOrder == [] C14_State /\ [][C14_Step]_vars

\* two identifiers were classified, then notified, then saved
C14_Witness ==
  /\ pc = "done" /\ Len(log) = 2 /\ Len(sent) = 1 /\ saves = 1
  /\ attempted = {1, 2}

(* ---------------------------------------------------------------------- *)
\* C15: at most one notification is composed and dispatched per run; all
\* the identifiers that took a write branch are consolidated in it.
Reported == { k \in 1..Len(log) : log[k].tag \in {"init", "update"} }

C15_OneNotification ==
  /\ Len(sent) <= 1
  /\ \A n \in 1..Len(sent) : sent[n].requests <= 1
  /\ Notified =>
       IF Reported = {}
       THEN sent = << >>
       ELSE /\ Len(sent) = 1
            /\ Len(sent[1].apps) = Cardinality(Reported)
            /\ sent[1].count = Cardinality(Reported)
            /\ \A k \in Reported : \E j \in 1..Len(sent[1].apps) :
                 sent[1].apps[j].id = log[k].id

\* one notification carries two applications
C15_Witness ==
  /\ pc = "done" /\ Len(sent) = 1 /\ Len(sent[1].apps) = 2
  /\ sent[1].kind = "multi"

(* ---------------------------------------------------------------------- *)
\* C16: the run ends reporting a status derived from the dispatch result:
\* failure when a dispatch was attempted and returned failure, success
\* when it returned success or none was attempted.
C16_StatusFollowsDispatch ==
  pc = "done" =>
    run_status(sent # << >>, sent # << >> /\ sent[1].result)
      = IF sent # << >> /\ ~ sent[1].result THEN "failure" ELSE "success"

(* ---------------------------------------------------------------------- *)
\* C18: at most one classification result is produced per resolved
\* identifier, also when the list names an identifier twice: no
\* identifier is listed twice in the notification and the count of the
\* title is the number of distinct identifiers reported.
C18_NoDuplicateResults ==
  \A n \in 1..Len(sent) :
    /\ Cardinality(SetOfIds(sent[n].apps)) = Len(sent[n].apps)
    /\ sent[n].count = Cardinality(SetOfIds(sent[n].apps))

\* C17: when the telegram backend is selected and configured and the
\* notification carries a link, the one message posted to telegram holds
\* that link among the parts of its text.
C17_TelegramCarriesLink ==
  (/\ pc = "returned"
   /\ arg.fn = "send_notification"
   /\ arg.env.method = "telegram"
   /\ configured(arg.env)
   /\ arg.url # "")
  => /\ Len(out.posts) = 1
     /\ \E k \in 1..Len(out.posts[1].text) : out.posts[1].text[k] = arg.url

\* C19: the release-notes excerpt never exceeds the limit of 150
\* characters: notes of at most 150 characters are shown verbatim, longer
\* notes are replaced by their first 147 characters followed by the
\* three-character marker, so that the excerpt without the marker is a
\* prefix of the notes.
IsPrefix(a, b) == Len(a) <= Len(b) /\ a = SubSeq(b, 1, Len(a))

C19_ExcerptBounded ==
  (pc = "returned" /\ arg.fn = "build_app_detail")
  => LET notes == arg.app_data.notes
         shown == out.detail.notes
     IN  /\ Len(shown) <= NotesLimit
         /\ Len(notes) <= NotesLimit => shown = notes
         /\ Len(notes) > NotesLimit
            => /\ Len(shown) = NotesLimit
               /\ SubSeq(shown, 1, NotesLimit - 3)
                    = SubSeq(notes, 1, NotesLimit - 3)
               /\ SubSeq(shown, NotesLimit - 2, NotesLimit) = Ellipsis
               /\ IsPrefix(SubSeq(shown, 1, Len(shown) - 3), notes)

\* notes one character over the limit have been cut
C19_Witness ==
  /\ pc = "returned"
  /\ arg.fn = "build_app_detail"
  /\ Len(arg.app_data.notes) = NotesLimit + 1
  /\ Len(out.detail.notes) = NotesLimit
  /\ out.detail.notes # arg.app_data.notes

\* C20: when the job is run again right after a run that is over and whose
\* save, if any, succeeded, with the same identifier list and the same
\* storefront answers, the second run sends no notification and makes no
\* save; after a cold start that resolved no identifier the second run ends
\* exactly as the first did.
C20_SecondRunIdle ==
  run = 2
  => /\ sent = << >>
     /\ saves = 0
     /\ (run1.cold /\ run1.resolved = 0 /\ pc \in {"done", "crashed"})
        => Outcome = run1

\* the first run notified and saved, the second found everything current
C20_Witness ==
  /\ run = 2
  /\ pc = "done"
  /\ run1.sent = 1
  /\ run1.saves = 1
  /\ loads = 1
  /\ Tags = {"latest"}

====
